---- MODULE Spec2Model ----
(***************************************************************************)
(* Model of the reference-counted Pointer<T, size> of gc_pointer.h and of  *)
(* the PtrDetails<T> record of gc_details.h.                               *)
(*                                                                         *)
(* One instantiation Pointer<T, size> is modelled: its static list         *)
(* refContainer, its static flag first, a bounded pool of Pointer objects  *)
(* (live or not), and the heap allocations the raw addresses name.         *)
(*                                                                         *)
(* Undefined behaviour of the code is a nondeterministic choice:           *)
(*   - fields read before they were written (Pointer() leaves addr,        *)
(*     isArray, arraySize unset; PtrDetails never sets refCount before     *)
(*     refCount++) take any value of a small set;                          *)
(*   - collect() reads the node it has just removed from the list: the     *)
(*     read yields the removed entry or a scrubbed node;                   *)
(*   - an access through refContainer.end() touches no entry of the list   *)
(*     and what it reads decides nothing but whether it writes; it is      *)
(*     recorded in invalidAccess.                                          *)
(***************************************************************************)
EXTENDS Integers, Sequences, FiniteSets, TLC

\* ------------------------------------------------------------------ bounds
MaxAddr    == 2   \* heap allocations 1..MaxAddr made by the program with new
MaxHandles == 2   \* Pointer objects that can be alive at the same time
MaxEntries == 2   \* longest refContainer explored
MaxCount   == 2   \* refCount values explored: 0..MaxCount, and
MaxWrapped == 1   \* the last MaxWrapped values below 2^32 (after wrap-around)
ArrLen     == 2   \* the array length of the instantiation with size > 0

\* --------------------------------------------------------------- constants
NULL == 0              \* nullptr

\* unsigned refCount is 32 bits wide and its arithmetic is modulo 2^32.  A
\* count is held as the two's-complement reading of its 32 bits, so that the
\* unsigned value u >= 2^31 is held as u - 2^32: 4294967295 is -1.  A count is
\* zero iff it is 0, and (unsigned) positive iff it is not 0.
IntMax == 2147483647
IntMin == -IntMax - 1
Inc32(c) == IF c = IntMax THEN IntMin ELSE c + 1
Dec32(c) == IF c = IntMin THEN IntMax ELSE c - 1

Addr    == 1..MaxAddr
Handle  == 1..MaxHandles
AddrOrNull == Addr \cup {NULL}

\* Values an unsigned read before any write can yield.
Indeterminate == {0, -1}

VARIABLES
    size,          \* template parameter size of the instantiation
    refContainer,  \* static std::list<PtrDetails<T>>, as a sequence
    first,         \* static bool first
    atexitCalls,   \* number of atexit(shutdown) registrations made
    handles,       \* the Pointer objects: live flag and the three fields
    heap,          \* per allocation: "allocated" or "freed"
    lastOp,        \* the last operation, the Pointer object it acted on and
                   \* the counts it overwrote with zero (shutdown())
    \* what the last operation did:
    invalidAccess, \* it made an access through refContainer.end()
    memFreed,      \* the result of the collect() it ran (FALSE if none)
    swept,         \* the entries its collect() removed: address and count
    released,      \* the releases its collect() made: address and mode
    doubleFree     \* it released an allocation that was released before

vars == << size, refContainer, first, atexitCalls, handles, heap, lastOp,
           invalidAccess, memFreed, swept, released, doubleFree >>

\* ------------------------------------------------------------- gc_details.h

\* PtrDetails(T* mPtr, unsigned arrSize): refCount is incremented without
\* ever having been set; junk is the value it held.  (PtrDetailsNoPtr is the
\* constructor without memPtr = mPtr.)
PtrDetailsNoPtr(mPtr, arrSize, junk) ==
    [ memPtr    |-> NULL,
      arraySize |-> arrSize,
      isArray   |-> (arrSize = 0),
      refCount  |-> Inc32(junk) ]

PtrDetails(mPtr, arrSize, junk) ==
    [ memPtr    |-> mPtr,
      arraySize |-> arrSize,
      isArray   |-> (arrSize = 0),
      refCount  |-> Inc32(junk) ]

\* operator==(PtrDetails, PtrDetails): same allocated memory.
PtrEq(ob1, ob2) == ob1.memPtr = ob2.memPtr

\* ------------------------------------------------------------- gc_pointer.h

\* A Pointer object that is not alive (storage not in use).
NoPointer == [ live |-> FALSE, addr |-> NULL, isArray |-> FALSE, arraySize |-> 0 ]

\* findPtrInfo(ptr): position of the first entry with memPtr = ptr;
\* Len + 1 stands for refContainer.end().
findPtrInfo(rc, ptr) ==
    LET hits == { i \in 1..Len(rc) : rc[i].memPtr = ptr }
    IN  IF hits = {} THEN Len(rc) + 1
        ELSE CHOOSE i \in hits : \A j \in hits : i <= j

AtEnd(rc, p) == p = Len(rc) + 1

\* std::list::remove(value): erases every element equal to value.
ListRemove(rc, value) == SelectSeq(rc, LAMBDA d : ~PtrEq(d, value))

\* What p->memPtr and p->isArray yield once the node p points at was erased.
DanglingRead(e) ==
    { [ memPtr |-> e.memPtr, isArray |-> e.isArray ],
      [ memPtr |-> NULL,     isArray |-> FALSE ] }

\* if (p->memPtr) { if (p->isArray) delete[] p->memPtr; else delete p->memPtr; }
Delete(st, rd) ==
    IF rd.memPtr = NULL THEN st
    ELSE [ st EXCEPT
             !.heap       = [ @ EXCEPT ![rd.memPtr] = "freed" ],
             !.doubleFree = @ \/ st.heap[rd.memPtr] = "freed",
             !.released   = @ \cup { [ addr |-> rd.memPtr, array |-> rd.isArray ] } ]

\* if (p->refCount > 0) continue;   (refCount is unsigned)
SkipAnyUse(d) == d.refCount # 0 /\ d.refCount # 1
Skip(d) == d.refCount # 0

\* The entries the for loop of collect() does not skip.
Zeros(rc) == { i \in 1..Len(rc) : ~Skip(rc[i]) }

\* One pass of the do-while body: the for loop stops at the first entry with
\* refCount = 0, removes it (and every entry equal to it) and releases it;
\* with no such entry it runs to refContainer.end() and changes nothing.
\* st = [refContainer, heap, doubleFree, memFreed, swept, released].
\* The result is the set of states the pass can end in.
Pass(st) ==
    LET rc == st.refContainer
    IN  IF Zeros(rc) = {} THEN {st}
        ELSE LET p    == CHOOSE i \in Zeros(rc) : \A j \in Zeros(rc) : i <= j
                 gone == { [ memPtr |-> rc[i].memPtr, refCount |-> rc[i].refCount ] :
                             i \in { j \in 1..Len(rc) : PtrEq(rc[j], rc[p]) } }
                 s1   == [ st EXCEPT !.memFreed     = TRUE,
                                     !.refContainer = ListRemove(rc, rc[p]),
                                     !.swept        = @ \cup gone ]
             IN  { Delete(s1, rd) : rd \in DanglingRead(rc[p]) }

\* do { ... } while (p != refContainer.end()): a pass that stopped at an
\* entry is followed by another; the result is the set of possible final
\* states of collect().  (collectOnePass leaves the loop after one pass.)
collectOnePass(st) == Pass(st)

RECURSIVE collect(_)
collect(st) ==
    IF Zeros(st.refContainer) = {} THEN {st}
    ELSE UNION { collect(s) : s \in Pass(st) }

\* The state collect() starts from, given the list at the time of the call.
CollectFrom(rc) ==
    [ refContainer |-> rc, heap |-> heap, doubleFree |-> FALSE,
      memFreed |-> FALSE, swept |-> {}, released |-> {} ]

\* Pointer(T* t), the list part: push_back of a fresh entry, whatever the
\* list already holds.
CtorEntry(t) ==
    [ PtrDetails(t, 0, 0) EXCEPT !.refCount  = 1,
                                 !.isArray   = (size > 0),
                                 !.arraySize = size ]

\* Pointer(T* t), the object part.
CtorFields(t) ==
    [ live |-> TRUE, addr |-> t, isArray |-> (size > 0), arraySize |-> size ]

\* ~Pointer(), the list part before collect(): if (p->refCount) p->refCount--
DtorList(rc, a) ==
    LET p == findPtrInfo(rc, a)
    IN  IF AtEnd(rc, p) \/ rc[p].refCount = 0 THEN rc
        ELSE [ rc EXCEPT ![p].refCount = Dec32(@) ]

\* p->refCount-- and p->refCount++ of the assignments: unsigned, unchecked.
\* (DecrementGuarded is the decrement of ~Pointer(), which the assignments
\* do not use.)
DecrementGuarded(rc, a) ==
    LET p == findPtrInfo(rc, a)
    IN  IF AtEnd(rc, p) \/ rc[p].refCount = 0 THEN rc
        ELSE [ rc EXCEPT ![p].refCount = Dec32(@) ]

Decrement(rc, a) ==
    LET p == findPtrInfo(rc, a)
    IN  IF AtEnd(rc, p) THEN rc
        ELSE [ rc EXCEPT ![p].refCount = Dec32(@) ]

Increment(rc, a) ==
    LET p == findPtrInfo(rc, a)
    IN  IF AtEnd(rc, p) THEN rc
        ELSE [ rc EXCEPT ![p].refCount = Inc32(@) ]

Missing(rc, a) == AtEnd(rc, findPtrInfo(rc, a))

\* Iter<T>(p, first, last) of gc_iterator.h: the cursor and the two ends of
\* its range, as addresses counted in elements.
Iter(p, first_, last_) == [ ptr |-> p, begin |-> first_, end |-> last_ ]

\* begin(): _size = isArray ? arraySize : 0;  Iter<T>(addr, addr, addr + _size)
begin(ob) ==
    LET _size == IF ob.isArray THEN ob.arraySize ELSE 0
    IN  Iter(ob.addr, ob.addr, ob.addr + _size)

\* end(): _size as in begin();  Iter<T>(addr + _size, addr, addr + _size)
end(ob) ==
    LET _size == IF ob.isArray THEN ob.arraySize ELSE 0
    IN  Iter(ob.addr + _size, ob.addr, ob.addr + _size)

\* The part of the state space explored.
CountOK(c)  == -MaxWrapped <= c /\ c <= MaxCount
InBounds(rc) ==
    /\ Len(rc) <= MaxEntries
    /\ \A i \in 1..Len(rc) : CountOK(rc[i].refCount)

\* Raw addresses the program can pass: nullptr, an allocation it has made and
\* not seen released, or the address a live Pointer converts to (operator T*).
RawInputs ==
    {NULL} \cup { x \in Addr : heap[x] = "allocated" }
           \cup { handles[h].addr : h \in { g \in Handle : handles[g].live } }

Op(name, h) == [ op |-> name, h |-> h, zeroed |-> {} ]

\* The storage a new Pointer object is constructed in.
IsNew(h) ==
    /\ ~handles[h].live
    /\ \A g \in Handle : ~handles[g].live => h <= g

\* The result of a collect() run becomes the state.
Collected(st) ==
    /\ refContainer' = st.refContainer
    /\ heap'         = st.heap
    /\ doubleFree'   = st.doubleFree
    /\ memFreed'     = st.memFreed
    /\ swept'        = st.swept
    /\ released'     = st.released

NoCollect ==
    /\ memFreed' = FALSE
    /\ swept'    = {}
    /\ released' = {}
    /\ doubleFree' = FALSE
    /\ UNCHANGED heap

\* if (first) atexit(shutdown); first = false;
\* (ArmAlways is the registration without the test of first.)
ArmAlways ==
    /\ atexitCalls' = atexitCalls + 1
    /\ first'       = FALSE

Arm ==
    /\ atexitCalls' = IF first THEN atexitCalls + 1 ELSE atexitCalls
    /\ first'       = FALSE

Init ==
    /\ size \in {0, ArrLen}
    /\ refContainer = << >>
    /\ first = TRUE
    /\ atexitCalls = 0
    /\ handles = [ h \in Handle |-> NoPointer ]
    /\ heap = [ x \in Addr |-> "allocated" ]
    /\ doubleFree = FALSE
    /\ invalidAccess = FALSE
    /\ memFreed = FALSE
    /\ swept = {}
    /\ released = {}
    /\ lastOp = Op("init", 0)

\* Pointer<T,size> h(t);
ConstructRaw ==
    \E h \in Handle, t \in RawInputs :
        /\ IsNew(h)
        /\ Arm
        /\ refContainer' = Append(refContainer, CtorEntry(t))
        /\ InBounds(refContainer')
        /\ handles' = [ handles EXCEPT ![h] = CtorFields(t) ]
        /\ NoCollect
        /\ lastOp' = Op("construct", h)
        /\ invalidAccess' = FALSE
        /\ UNCHANGED size

\* Pointer<T,size> h(obj);
CopyConstruct ==
    \E h \in Handle, obj \in Handle :
        /\ IsNew(h)
        /\ handles[obj].live
        /\ handles' = [ handles EXCEPT ![h] = handles[obj] ]
        /\ refContainer' = Increment(refContainer, handles[obj].addr)
        /\ InBounds(refContainer')
        /\ invalidAccess' = Missing(refContainer, handles[obj].addr)
        /\ NoCollect
        /\ lastOp' = Op("copy", h)
        /\ UNCHANGED << size, first, atexitCalls >>

\* h.~Pointer();
Destroy ==
    \E h \in Handle :
        /\ handles[h].live
        /\ invalidAccess' = Missing(refContainer, handles[h].addr)
        /\ \E st \in collect(CollectFrom(DtorList(refContainer, handles[h].addr))) :
               Collected(st)
        /\ handles' = [ handles EXCEPT ![h] = NoPointer ]
        /\ lastOp' = Op("destroy", h)
        /\ UNCHANGED << size, first, atexitCalls >>

\* What the fields of a Pointer hold when no constructor wrote them: whatever
\* the storage held (an all-zero object, or a stale address and the fields of
\* an array Pointer).
Unset ==
    { [ live |-> TRUE, addr |-> a, isArray |-> b,
        arraySize |-> IF b THEN ArrLen ELSE 0 ] : a \in AddrOrNull, b \in BOOLEAN }

\* Pointer<T,size> h;   The body Pointer() { Pointer(nullptr); } constructs and
\* destroys a temporary; no field of h itself is written.
DefaultConstruct ==
    \E h \in Handle :
        /\ IsNew(h)
        /\ Arm
        /\ LET pushed == Append(refContainer, CtorEntry(NULL))
           IN  /\ InBounds(pushed)
               /\ \E st \in collect(CollectFrom(DtorList(pushed, NULL))) :
                      Collected(st)
        /\ \E junk \in Unset : handles' = [ handles EXCEPT ![h] = junk ]
        /\ lastOp' = Op("default", h)
        /\ invalidAccess' = FALSE
        /\ UNCHANGED size

\* h = t;   (T* operator=(T* t))
AssignRaw ==
    \E h \in Handle, t \in RawInputs :
        /\ handles[h].live
        /\ LET dropped == Decrement(refContainer, handles[h].addr)
           IN  /\ IF Missing(dropped, t)
                  THEN \E junk \in Indeterminate :
                           refContainer' = Append(dropped, PtrDetails(t, size, junk))
                  ELSE refContainer' = Increment(dropped, t)
               /\ InBounds(refContainer')
        /\ invalidAccess' = Missing(refContainer, handles[h].addr)
        /\ handles' = [ handles EXCEPT ![h].addr = t ]
        /\ NoCollect
        /\ lastOp' = Op("assignRaw", h)
        /\ UNCHANGED << size, first, atexitCalls >>

\* h = rv;   (Pointer& operator=(Pointer& rv))
AssignHandleSweeps ==
    \E h \in Handle, rv \in Handle :
        /\ handles[h].live
        /\ handles[rv].live
        /\ LET dropped == Decrement(refContainer, handles[h].addr)
               moved   == Increment(dropped, handles[rv].addr)
           IN  /\ \E st \in collect(CollectFrom(moved)) : Collected(st)
               /\ invalidAccess' = ( \/ Missing(refContainer, handles[h].addr)
                                     \/ Missing(dropped, handles[rv].addr) )
        /\ handles' = [ handles EXCEPT ![h].addr = handles[rv].addr ]
        /\ lastOp' = Op("assignHandle", h)
        /\ UNCHANGED << size, first, atexitCalls >>


AssignHandle ==
    \E h \in Handle, rv \in Handle :
        /\ handles[h].live
        /\ handles[rv].live
        /\ LET dropped == Decrement(refContainer, handles[h].addr)
           IN  /\ refContainer' = Increment(dropped, handles[rv].addr)
               /\ InBounds(refContainer')
               /\ invalidAccess' = ( \/ Missing(refContainer, handles[h].addr)
                                     \/ Missing(dropped, handles[rv].addr) )
        /\ handles' = [ handles EXCEPT ![h].addr = handles[rv].addr ]
        /\ NoCollect
        /\ lastOp' = Op("assignHandle", h)
        /\ UNCHANGED << size, first, atexitCalls >>

\* Pointer<T,size>::collect();
Collect ==
    /\ \E st \in collect(CollectFrom(refContainer)) : Collected(st)
    /\ lastOp' = Op("collect", 0)
    /\ invalidAccess' = FALSE
    /\ UNCHANGED << size, first, atexitCalls, handles >>

\* Set all reference counts to zero (the for loop of shutdown()).
ZeroNoCounts(rc) == rc
ZeroCounts(rc) == [ i \in 1..Len(rc) |-> [ rc[i] EXCEPT !.refCount = 0 ] ]

\* Pointer<T,size>::shutdown();
Shutdown ==
    /\ IF Len(refContainer) = 0
       THEN /\ NoCollect
            /\ UNCHANGED refContainer
       ELSE \E st \in collect(CollectFrom(ZeroCounts(refContainer))) : Collected(st)
    /\ lastOp' = [ Op("shutdown", 0) EXCEPT
                      !.zeroed = { refContainer[i].refCount :
                                     i \in 1..Len(refContainer) } ]
    /\ invalidAccess' = FALSE
    /\ UNCHANGED << size, first, atexitCalls, handles >>

Next ==
    \/ ConstructRaw
    \/ DefaultConstruct
    \/ CopyConstruct
    \/ Destroy
    \/ AssignRaw
    \/ AssignHandle
    \/ Collect
    \/ Shutdown

Spec == Init /\ [][Next]_vars

\* Programs that only construct from raw addresses, copy and destroy.
NextCCD ==
    \/ ConstructRaw
    \/ CopyConstruct
    \/ Destroy

SpecCCD == Init /\ [][NextCCD]_vars

\* collect() and shutdown() act on the static list alone.  To check them on
\* every content of the list, they are run from each list of up to
\* MaxEntries entries, over any addresses (repeated or not), with any counts
\* and either release mode.
Entries ==
    [ memPtr : AddrOrNull, refCount : (-MaxWrapped)..MaxCount,
      isArray : BOOLEAN, arraySize : {0, ArrLen} ]

InitSweep ==
    /\ size \in {0, ArrLen}
    /\ \E n \in 0..MaxEntries :
           refContainer \in { rc \in [ 1..n -> Entries ] :
                                 \A i \in 1..n : rc[i].arraySize = size }
    /\ first = FALSE
    /\ atexitCalls = 1
    /\ handles = [ h \in Handle |-> NoPointer ]
    /\ heap = [ x \in Addr |-> "allocated" ]
    /\ doubleFree = FALSE
    /\ invalidAccess = FALSE
    /\ memFreed = FALSE
    /\ swept = {}
    /\ released = {}
    /\ lastOp = Op("init", 0)

NextSweep ==
    \/ Collect
    \/ Shutdown

SpecSweep == InitSweep /\ [][NextSweep]_vars

\* ------------------------------------------------------------- properties

Live == { h \in Handle : handles[h].live }

\* The live Pointer objects whose addr is x.
Holders(x) == { h \in Live : handles[h].addr = x }

\* The refCount findPtrInfo(a) leads to.
CountOf(rc, a) == rc[findPtrInfo(rc, a)].refCount

EntriesFor(rc, a) == { i \in 1..Len(rc) : rc[i].memPtr = a }

\* C1: for every address x that has an entry, after any sequence of
\* constructions from raw addresses (the same address twice included), copy
\* constructions and destructions, the refCount tracked for x equals the
\* number of live Pointer objects whose addr is x.
C1_CountIsLiveHolders ==
    \A x \in Addr :
        ~Missing(refContainer, x) =>
            CountOf(refContainer, x) = Cardinality(Holders(x))

\* C2: an allocation is released only when no live Pointer holds it:
\* collect() removes (and releases) only entries whose refCount is zero; it
\* never removes an entry whose refCount is positive.
C2_SweepsOnlyZeroCounts ==
    /\ \A e \in swept : e.refCount = 0
    /\ lastOp.op # "shutdown" => \A r \in released : Holders(r.addr) = {}

\* C3: over any sequence of operations, each allocation is released (delete
\* or delete[]) at most once.
C3_ReleasedAtMostOnce ==
    ~doubleFree

\* C4: destroying the last live Pointer holding address x leaves x released
\* and without entry; destroying a Pointer while another live Pointer holds x
\* does not release x and leaves its entry, with the count reduced by one.
C4_DestroyLastReleases ==
    [][ (lastOp'.op = "destroy" /\ handles[lastOp'.h].live
                                /\ handles[lastOp'.h].addr # NULL) =>
            LET h == lastOp'.h
                x == handles[h].addr
            IN  IF Holders(x) = {h}
                THEN /\ heap'[x] = "freed"
                     /\ Missing(refContainer', x)
                ELSE /\ heap'[x] = heap[x]
                     /\ \A r \in released' : r.addr # x
                     /\ ~Missing(refContainer, x)
                     /\ ~Missing(refContainer', x)
                     /\ CountOf(refContainer', x) = CountOf(refContainer, x) - 1
      ]_vars

\* C5: when shutdown() returns the registry is empty, whatever it held.
C5_ShutdownEmpties ==
    lastOp.op = "shutdown" => refContainer = << >>

\* shutdown() has swept a registry of several entries, one of them for the
\* null address, that held a count greater than one.
C5_Witness ==
    /\ lastOp.op = "shutdown"
    /\ refContainer = << >>
    /\ \E e \in swept : e.memPtr = NULL
    /\ \E e \in swept : e.memPtr # NULL
    /\ \E c \in lastOp.zeroed : c \notin {0, 1}

\* C6: when no entry has refCount zero, collect() returns false, leaves the
\* registry (entries, order, counts) as it was and releases nothing; the
\* registry then still has no zero entry, so this holds for every repetition.
C6_CollectNothingToDo ==
    [][ (lastOp'.op = "collect" /\ \A i \in 1..Len(refContainer) :
                                       refContainer[i].refCount # 0) =>
            /\ memFreed' = FALSE
            /\ refContainer' = refContainer
            /\ heap' = heap
            /\ released' = {}
            /\ swept' = {}
      ]_vars

\* collect() has run on a registry of two entries, none at zero.
C6_Witness ==
    /\ lastOp.op = "collect"
    /\ memFreed = FALSE
    /\ swept = {}
    /\ Len(refContainer) = 2
    /\ \A i \in 1..Len(refContainer) : refContainer[i].refCount # 0

\* C7: default construction yields a Pointer whose own addr is null and whose
\* isArray and arraySize are initialised from size.
C7_DefaultIsNull ==
    lastOp.op = "default" => handles[lastOp.h] = CtorFields(NULL)

\* C8: h = t, with h of array length size.  If t has no entry, exactly one
\* entry for t is inserted, with refCount 1, isArray = (size > 0) and
\* arraySize = size; if t has an entry, its count goes up by one and nothing
\* is inserted.  Either way the count of h's previous address goes down by
\* one and h's addr becomes t.
C8_AssignRawEffect ==
    [][ (lastOp'.op = "assignRaw" /\ handles[lastOp'.h].live) =>
            LET h   == lastOp'.h
                old == handles[h].addr
                t   == handles'[h].addr
                rc  == refContainer
                rc2 == refContainer'
            IN  /\ Missing(rc, t) =>
                       /\ Len(rc2) = Len(rc) + 1
                       /\ Cardinality(EntriesFor(rc2, t)) = 1
                       /\ rc2[Len(rc2)] = [ memPtr |-> t, refCount |-> 1,
                                            isArray |-> (size > 0),
                                            arraySize |-> size ]
                /\ ~Missing(rc, t) =>
                       /\ Len(rc2) = Len(rc)
                       /\ CountOf(rc2, t) =
                              CountOf(rc, t) + (IF old = t THEN 0 ELSE 1)
                /\ (old # t /\ ~Missing(rc, old)) =>
                       CountOf(rc2, old) = CountOf(rc, old) - 1
      ]_vars

\* C9: every release collect() makes is an array release (delete[]) if and
\* only if the entries were registered by Pointer objects of size > 0.
C9_ReleaseMode ==
    \A r \in released : r.array = (size > 0)

\* C10: neither assignment removes an entry or releases an allocation: every
\* entry keeps its place and address, and no collect() runs.
C10_AssignKeepsEntries ==
    [][ lastOp'.op \in {"assignRaw", "assignHandle"} =>
            /\ heap' = heap
            /\ released' = {}
            /\ swept' = {}
            /\ Len(refContainer') >= Len(refContainer)
            /\ \A i \in 1..Len(refContainer) :
                   refContainer'[i].memPtr = refContainer[i].memPtr
      ]_vars

\* An assignment has left the entry of an allocation at count zero: it is
\* still registered and not released, and no live Pointer holds it.
C10_Witness ==
    /\ lastOp.op \in {"assignRaw", "assignHandle"}
    /\ \E i \in 1..Len(refContainer) :
           /\ refContainer[i].refCount = 0
           /\ refContainer[i].memPtr # NULL
           /\ heap[refContainer[i].memPtr] = "allocated"
           /\ Holders(refContainer[i].memPtr) = {}

\* C11: h = rv leaves the registry with the same entries in the same places;
\* the entry found for h's previous address loses one from its count and the
\* entry found for rv's address gains one, and h's addr becomes rv's.  When
\* both are the same address (h = h included) every count is unchanged.
C11_AssignHandleEffect ==
    [][ lastOp'.op = "assignHandle" =>
            LET h   == lastOp'.h
                old == handles[h].addr
                new == handles'[h].addr
                rc  == refContainer
                rc2 == refContainer'
                po  == findPtrInfo(rc, old)
                pn  == findPtrInfo(rc, new)
            IN  /\ \E rv \in Handle : handles[rv].live /\ handles[rv].addr = new
                /\ Len(rc2) = Len(rc)
                /\ \A i \in 1..Len(rc) :
                       /\ rc2[i].memPtr    = rc[i].memPtr
                       /\ rc2[i].isArray   = rc[i].isArray
                       /\ rc2[i].arraySize = rc[i].arraySize
                       /\ rc2[i].refCount  = rc[i].refCount
                                               - (IF i = po THEN 1 ELSE 0)
                                               + (IF i = pn THEN 1 ELSE 0)
                /\ old = new => rc2 = rc
      ]_vars

\* h = rv has moved h from one registered address to another: the address it
\* left is still registered, at count zero, and the one it joined has both
\* Pointer objects as holders and a count of two.
C11_Witness ==
    /\ lastOp.op = "assignHandle"
    /\ Cardinality(Holders(handles[lastOp.h].addr)) = 2
    /\ ~Missing(refContainer, handles[lastOp.h].addr)
    /\ CountOf(refContainer, handles[lastOp.h].addr) = 2
    /\ \E i \in 1..Len(refContainer) :
           /\ refContainer[i].memPtr # handles[lastOp.h].addr
           /\ refContainer[i].refCount = 0

\* C12: collect() returns true exactly when that call released at least one
\* allocation; a call that removes only an entry for the null address, or
\* removes nothing, returns false.
C12_TrueIffReleased ==
    lastOp.op = "collect" => (memFreed <=> released # {})

\* C13: for a Pointer obtained by construction from a raw address, by copy
\* construction or by either assignment, begin() is at the Pointer's addr and
\* end() is size elements after it (so begin() = end() when size = 0).
C13_RangeIsSize ==
    lastOp.op \in {"construct", "copy", "assignRaw", "assignHandle"} =>
        LET ob == handles[lastOp.h]
        IN  /\ begin(ob).ptr = ob.addr
            /\ end(ob).ptr - begin(ob).ptr = size
            /\ begin(ob).begin = ob.addr
            /\ begin(ob).end = ob.addr + size
            /\ end(ob).begin = begin(ob).begin
            /\ end(ob).end = begin(ob).end

\* C14: the registry never holds two entries for the same address.
C14_OneEntryPerAddress ==
    \A x \in AddrOrNull : Cardinality(EntriesFor(refContainer, x)) <= 1

\* C15: every live Pointer whose addr is not null has exactly one entry, and
\* the lookups of copy construction, destruction and both assignments never
\* come back with refContainer.end().
C15_LiveHandleHasEntry ==
    /\ \A h \in Live : handles[h].addr # NULL =>
           Cardinality(EntriesFor(refContainer, handles[h].addr)) = 1
    /\ lastOp.op \in {"copy", "destroy", "assignRaw", "assignHandle"} =>
           ~invalidAccess

\* C16: ~Pointer() decrements only a count that exists and is positive; when
\* the Pointer's addr has no entry it reads and writes nothing through the
\* position findPtrInfo returned, and changes no entry, before collect().
C16_DestroyChecksEntry ==
    [][ lastOp'.op = "destroy" =>
            LET a == handles[lastOp'.h].addr
            IN  /\ ~invalidAccess'
                /\ (Missing(refContainer, a) \/ CountOf(refContainer, a) = 0) =>
                       DtorList(refContainer, a) = refContainer
      ]_vars

\* C17: collect() ends on every registry, and when it returns no entry has
\* refCount zero.  It ends because every pass of its do-while loop that
\* stops at an entry leaves the registry strictly shorter, so a registry of
\* n entries is swept in at most n + 1 passes.
C17_CollectEndsClean ==
    /\ lastOp.op \in {"collect", "shutdown"} =>
           \A i \in 1..Len(refContainer) : refContainer[i].refCount # 0
    /\ Zeros(refContainer) # {} =>
           \A s \in Pass(CollectFrom(refContainer)) :
               Len(s.refContainer) < Len(refContainer)
    /\ \A s \in collect(CollectFrom(refContainer)) :
           /\ Zeros(s.refContainer) = {}
           /\ Len(s.refContainer) <= Len(refContainer)

\* collect() has returned after three passes: two that each removed a
\* zero-count entry of a different address, and the last that found none.
C17_Witness ==
    /\ lastOp.op = "collect"
    /\ Cardinality({ e.memPtr : e \in swept }) = 2
    /\ refContainer = << >>

\* C18: no entry of the registry has a null address, in any reachable state.
C18_NoNullEntry ==
    \A i \in 1..Len(refContainer) : refContainer[i].memPtr # NULL

\* C18, amended: the number of entries with a null address grows only in a
\* step of Pointer(nullptr), of default construction (through its temporary)
\* or of an assignment of a null raw address.
C18_NullOnlyWhenRegistered ==
    [][ Cardinality(EntriesFor(refContainer', NULL)) >
            Cardinality(EntriesFor(refContainer, NULL)) =>
            \/ lastOp'.op = "default"
            \/ /\ lastOp'.op \in {"construct", "assignRaw"}
               /\ handles'[lastOp'.h].addr = NULL
      ]_vars

\* h = nullptr has just inserted the entry for the null address (the entry
\* has the isArray that only operator=(T*) registers), after an entry of a
\* non-null address.
C18_Witness ==
    /\ lastOp.op = "assignRaw"
    /\ handles[lastOp.h].addr = NULL
    /\ Len(refContainer) = 2
    /\ refContainer[1].memPtr # NULL
    /\ refContainer[2].memPtr = NULL
    /\ refContainer[2].isArray = (size = 0)

\* C19: no operation decrements a refCount that is zero, so no entry ever
\* has a count that wrapped around to UINT_MAX or below it (such a count reads
\* as negative here).
C19_NeverWraps ==
    \A i \in 1..Len(refContainer) : refContainer[i].refCount >= 0

\* C20: atexit(shutdown) is called once, by the first construction from a raw
\* address (that of default construction included): a step registers the
\* hook only if it is such a construction and none came before it, every
\* such construction leaves the hook registered, and no step registers it a
\* second time.
C20_ArmedOnce ==
    [][ /\ atexitCalls' # atexitCalls =>
               /\ lastOp'.op \in {"construct", "default"}
               /\ first
               /\ atexitCalls = 0
               /\ atexitCalls' = 1
        /\ lastOp'.op \in {"construct", "default"} =>
               /\ atexitCalls' = 1
               /\ ~first'
        /\ lastOp'.op \notin {"construct", "default"} =>
               /\ atexitCalls' = atexitCalls
               /\ first' = first
      ]_vars

\* A second construction from a raw address has run, with the Pointer of the
\* first still alive, and the hook is registered once.
C20_Witness ==
    /\ lastOp.op = "construct"
    /\ lastOp.h = 2
    /\ handles[1].live
    /\ handles[2].live
    /\ atexitCalls = 1
    /\ ~first

====
